---- MODULE Spec2Model ----
(***************************************************************************)
(* Task manager: the REST handlers of backend/routes/tasks.js over the     *)
(* tasks table, and the page controller of frontend/src/app/page.tsx that  *)
(* drives them through the API client (services/api).                      *)
(*                                                                         *)
(* The state machines share the server part:                               *)
(*   Spec        one API caller issuing requests one after another;        *)
(*   ClientSpec  the browser page: user events, requests in flight, the    *)
(*               server serving them, the awaits' continuations.           *)
(*   LiveClient  ClientSpec with the fairness of the event loop.           *)
(***************************************************************************)
EXTENDS Integers, Sequences, FiniteSets, TLC

(***************************************************************************)
(* Bounds of the model.                                                    *)
(***************************************************************************)
MaxId == 2          \* ids the table hands out: 1..MaxId
MaxClock == 1       \* readings of the storage clock: 0..MaxClock
MaxSent == 2        \* requests the user triggers after the page has loaded

(***************************************************************************)
(* Values.  A JSON body field that is missing destructures to the          *)
(* JavaScript value undefined; JSON null and a column without a value are  *)
(* Null.                                                                   *)
(***************************************************************************)
Undefined == "<undefined>"
Null == "<null>"
StatusEnum == {"pending", "in-progress", "completed"}

TitleIn == {Undefined, Null, "", "a"}
DescriptionIn == {Undefined, "d"}
StatusIn == {Undefined, "completed"}
Bodies == [title : TitleIn, description : DescriptionIn, status : StatusIn]
NoBody == [title |-> Undefined, description |-> Undefined, status |-> Undefined]

ReqIds == 1..(MaxId + 1)      \* the last one is never handed out

VARIABLES
    db,         \* the tasks table: id -> row, for the persisted ids
    nextId,     \* the table's AUTO_INCREMENT counter
    clock,      \* the storage clock that stamps created_at
    req,        \* Spec: the request being answered, NoReq between requests
    resp,       \* Spec: its response
    tasks,      \* page: useState<Task[]>
    loading,    \* page: useState(true)
    error,      \* page: useState<string | null>
    showForm,   \* page: useState(false)
    editingTask,\* page: useState<Task | null>, <<>> for null, <<t>> for t
    mounted,    \* page: the mount effect has run
    inflight,   \* page: the requests awaited, each with its handler's closure
    done,       \* history: ids whose Create / Delete the page saw succeed
    sent        \* history: how many requests the user has triggered

vars == <<db, nextId, clock, req, resp, tasks, loading, error, showForm,
          editingTask, mounted, inflight, done, sent>>
serverVars == <<db, nextId, clock>>
apiVars == <<req, resp>>
pageVars == <<tasks, loading, error, showForm, editingTask, mounted, inflight, done,
              sent>>

(***************************************************************************)
(* Storage accessor: db.execute(sql, params) of config/database, over the  *)
(* tasks table.                                                            *)
(***************************************************************************)
\* a bound parameter: an undefined parameter is stored as NULL
Bind(v) == IF v = Undefined THEN Null ELSE v

\* the row as SELECT * returns it
Task(table, id) ==
    [id |-> id, title |-> table[id].title, description |-> table[id].description,
     status |-> table[id].status, created_at |-> table[id].created_at]

\* SELECT * FROM tasks WHERE id = ?
SelectById(table, id) ==
    IF id \in DOMAIN table THEN <<Task(table, id)>> ELSE <<>>

\* INSERT INTO tasks (title, description, status) VALUES (?, ?, ?)
Insert(table, insertId, now, title, description, status) ==
    [i \in DOMAIN table \cup {insertId} |->
        IF i = insertId
        THEN [title |-> Bind(title), description |-> Bind(description),
              status |-> Bind(status), created_at |-> now]
        ELSE table[i]]

\* UPDATE tasks SET title = ?, description = ?, status = ? WHERE id = ?
Update(table, id, title, description, status) ==
    [i \in DOMAIN table |->
        IF i = id
        THEN [title |-> Bind(title), description |-> Bind(description),
              status |-> Bind(status), created_at |-> table[i].created_at]
        ELSE table[i]]

\* DELETE FROM tasks WHERE id = ?
DeleteRow(table, id) == [i \in DOMAIN table \ {id} |-> table[i]]

\* result.affectedRows of an UPDATE / DELETE ... WHERE id = ?
AffectedRows(table, id) == IF id \in DOMAIN table THEN 1 ELSE 0

\* the sequences without repetition over a set of ids
Perms(S) ==
    {p \in [1..Cardinality(S) -> S] : \A i, j \in 1..Cardinality(S) : p[i] = p[j] => i = j}

\* SELECT * FROM tasks ORDER BY created_at DESC: every order of the rows in
\* which created_at does not increase (rows of equal created_at in any order)
SelectAll(table) ==
    {[i \in 1..Len(p) |-> Task(table, p[i])] :
        p \in {q \in Perms(DOMAIN table) :
                \A i, j \in 1..Len(q) :
                    i < j => table[q[i]].created_at >= table[q[j]].created_at}}

(***************************************************************************)
(* Task resource handler (routes/tasks.js).  Each handler is a function of *)
(* the table and the request to the response and the table afterwards: the *)
(* statements of one handler run as one step, requests being handled one   *)
(* after another.  The accessor modelled here executes every statement, so *)
(* the handlers' catch branches (500) are not entered.  updated_at is left *)
(* to the storage and is not part of the rows.                             *)
(***************************************************************************)
Reply(status, data, table, nid) ==
    [status |-> status, data |-> data, db |-> table, nextId |-> nid]

\* !title
Falsy(v) == v \in {Undefined, Null, ""}

\* const { ..., status = 'pending' } = req.body
DefaultStatus_NoDefault(status) == status
DefaultStatus(status) == IF status = Undefined THEN "pending" ELSE status

\* router.get('/:id')
GetTask(table, id) ==
    LET rows == SelectById(table, id)
    IN  IF Len(rows) = 0 THEN Reply(404, <<>>, table, 0)
        ELSE Reply(200, <<rows[1]>>, table, 0)

\* router.post('/')
CreateTask_InsertBeforeCheck(table, nid, now, body) ==
    LET after == Insert(table, nid, now, body.title, body.description,
                        DefaultStatus(body.status))
    IN  IF Falsy(body.title) THEN Reply(400, <<>>, after, nid + 1)
        ELSE Reply(201, SelectById(after, nid), after, nid + 1)
CreateTask(table, nid, now, body) ==
    IF Falsy(body.title) THEN Reply(400, <<>>, table, nid)
    ELSE LET after == Insert(table, nid, now, body.title, body.description,
                             DefaultStatus(body.status))
         IN  Reply(201, SelectById(after, nid), after, nid + 1)

\* router.put('/:id')
UpdateTask_MergesMissingFields(table, id, body) ==
    IF AffectedRows(table, id) = 0 THEN Reply(404, <<>>, table, 0)
    ELSE LET keep(v, old) == IF v = Undefined THEN old ELSE v
             after == Update(table, id, keep(body.title, table[id].title),
                             keep(body.description, table[id].description),
                             keep(body.status, table[id].status))
         IN  Reply(200, SelectById(after, id), after, 0)
UpdateTask(table, id, body) ==
    IF AffectedRows(table, id) = 0 THEN Reply(404, <<>>, table, 0)
    ELSE LET after == Update(table, id, body.title, body.description, body.status)
         IN  Reply(200, SelectById(after, id), after, 0)

\* router.delete('/:id')
DeleteTask_NoAffectedRowsCheck(table, id) == Reply(200, <<>>, DeleteRow(table, id), 0)
DeleteTask(table, id) ==
    IF AffectedRows(table, id) = 0 THEN Reply(404, <<>>, table, 0)
    ELSE Reply(200, <<>>, DeleteRow(table, id), 0)

\* router.get('/'): the responses the handler can give
ListTasks(table) == {Reply(200, rows, table, 0) : rows \in SelectAll(table)}

(***************************************************************************)
(* Spec: one caller of the API, one request at a time.                     *)
(***************************************************************************)
NoReq == [op |-> "none", id |-> 0, body |-> NoBody]
NoResp == [status |-> 0, data |-> <<>>]
Idle == req = NoReq

Answer(r) == resp' = [status |-> r.status, data |-> r.data]

\* POST /api/tasks
Post ==
    /\ Idle
    /\ \E b \in Bodies :
         /\ nextId <= MaxId \/ Falsy(b.title)
         /\ req' = [op |-> "create", id |-> 0, body |-> b]
         /\ LET r == CreateTask(db, nextId, clock, b)
            IN  Answer(r) /\ db' = r.db /\ nextId' = r.nextId
    /\ UNCHANGED <<clock, pageVars>>

\* GET /api/tasks/{id}
GetOne ==
    /\ Idle
    /\ \E i \in ReqIds :
         /\ req' = [op |-> "get", id |-> i, body |-> NoBody]
         /\ Answer(GetTask(db, i))
    /\ UNCHANGED <<serverVars, pageVars>>

\* PUT /api/tasks/{id}
Put ==
    /\ Idle
    /\ \E i \in ReqIds, b \in Bodies :
         /\ req' = [op |-> "update", id |-> i, body |-> b]
         /\ LET r == UpdateTask(db, i, b)
            IN  Answer(r) /\ db' = r.db
    /\ UNCHANGED <<nextId, clock, pageVars>>

\* DELETE /api/tasks/{id}
Delete ==
    /\ Idle
    /\ \E i \in ReqIds :
         /\ req' = [op |-> "delete", id |-> i, body |-> NoBody]
         /\ LET r == DeleteTask(db, i)
            IN  Answer(r) /\ db' = r.db
    /\ UNCHANGED <<nextId, clock, pageVars>>

\* GET /api/tasks
List ==
    /\ Idle
    /\ req' = [op |-> "list", id |-> 0, body |-> NoBody]
    /\ \E r \in ListTasks(db) : Answer(r)
    /\ UNCHANGED <<serverVars, pageVars>>

\* the caller has read the response and is ready for its next request
Return ==
    /\ ~Idle
    /\ req' = NoReq /\ resp' = NoResp
    /\ UNCHANGED <<serverVars, pageVars>>

\* the storage clock advances
Tick ==
    /\ clock < MaxClock
    /\ clock' = clock + 1
    /\ UNCHANGED <<db, nextId, apiVars, pageVars>>

EmptyTable == [i \in {} |-> 0]

Init ==
    /\ db = EmptyTable /\ nextId = 1 /\ clock = 0
    /\ req = NoReq /\ resp = NoResp
    /\ tasks = <<>> /\ loading = TRUE /\ error = Null
    /\ showForm = FALSE /\ editingTask = <<>>
    /\ mounted = FALSE /\ inflight = <<>> /\ done = [created |-> {}, deleted |-> {}]
    /\ sent = 0

Next == Return \/ Post \/ GetOne \/ Put \/ Delete \/ List \/ Tick

Spec == Init /\ [][Next]_vars

(***************************************************************************)
(* The page (frontend/src/app/page.tsx) and the API client (services/api). *)
(* A request in flight keeps what its handler's closure captured when the  *)
(* event fired: the tasks of that render (and the id of editingTask).      *)
(*   phase "sent"    awaiting the server                                   *)
(*   phase "ok"      the promise resolved with data                        *)
(*   phase "failed"  the promise rejected (a 4xx / 5xx answer or no answer)*)
(***************************************************************************)
FormData == [title : {"", "a"}, description : {"d"}, status : {"pending"}]
ShortcutStatus == {"completed"}

LoadError == "Failed to load tasks"
CreateError == "Failed to create task"
UpdateError == "Failed to update task"
DeleteError == "Failed to delete task"
StatusError == "Failed to update task status"

Request(kind, id, body, closure) ==
    [kind |-> kind, id |-> id, body |-> body, tasks |-> closure,
     phase |-> "sent", data |-> <<>>]

RemoveAt(q, k) == [i \in 1..(Len(q) - 1) |-> IF i < k THEN q[i] ELSE q[i + 1]]
TaskIds(list) == {list[i].id : i \in 1..Len(list)}
CanSend == sent < MaxSent
\* the page is rendered (not the loading screen), so its controls can fire
Rendered == mounted /\ ~loading
\* creates not yet served: each will take an id
PendingCreates ==
    Cardinality({k \in 1..Len(inflight) :
                    inflight[k].kind = "create" /\ inflight[k].phase = "sent"})

\* tasks.map(task => task.id === id ? updatedTask : task)
MapReplace(list, id, updatedTask) ==
    [i \in 1..Len(list) |-> IF list[i].id = id THEN updatedTask ELSE list[i]]
\* tasks.filter(task => task.id !== id)
FilterOut(list, id) == SelectSeq(list, LAMBDA t : t.id # id)

\* useEffect(() => { loadTasks(); }, []): setLoading(true), getTasks() sent
Mount ==
    /\ ~mounted
    /\ mounted' = TRUE
    /\ loading' = TRUE
    /\ inflight' = Append(inflight, Request("load", 0, NoBody, tasks))
    /\ UNCHANGED <<serverVars, apiVars, tasks, error, showForm, editingTask, done, sent>>

\* the header button: setShowForm(!showForm)
ToggleForm ==
    /\ Rendered
    /\ showForm' = ~showForm
    /\ UNCHANGED <<serverVars, apiVars, tasks, loading, error, editingTask, mounted,
                   inflight, done, sent>>

\* openEditForm(task), from a task card
OpenEditForm ==
    /\ Rendered
    /\ \E k \in 1..Len(tasks) : editingTask' = <<tasks[k]>>
    /\ showForm' = TRUE
    /\ UNCHANGED <<serverVars, apiVars, tasks, loading, error, mounted, inflight, done, sent>>

\* closeForm, the form's onCancel
CloseForm ==
    /\ Rendered /\ showForm
    /\ showForm' = FALSE
    /\ editingTask' = <<>>
    /\ UNCHANGED <<serverVars, apiVars, tasks, loading, error, mounted, inflight, done, sent>>

\* the form's onSubmit without editingTask: handleCreateTask up to its await
SubmitCreate ==
    /\ Rendered /\ showForm /\ editingTask = <<>> /\ CanSend
    /\ nextId + PendingCreates <= MaxId
    /\ \E b \in FormData : inflight' = Append(inflight, Request("create", 0, b, tasks))
    /\ UNCHANGED <<serverVars, apiVars, tasks, loading, error, showForm, editingTask,
                   mounted, done>>
    /\ sent' = sent + 1

\* the form's onSubmit with editingTask: handleEditTask up to its await
SubmitEdit ==
    /\ Rendered /\ showForm /\ editingTask # <<>> /\ CanSend
    /\ \E b \in FormData :
         inflight' = Append(inflight, Request("edit", editingTask[1].id, b, tasks))
    /\ UNCHANGED <<serverVars, apiVars, tasks, loading, error, showForm, editingTask,
                   mounted, done>>
    /\ sent' = sent + 1

\* handleDeleteTask up to its await: confirm() answered yes
ClickDelete ==
    /\ Rendered /\ CanSend
    /\ \E k \in 1..Len(tasks) :
         inflight' = Append(inflight, Request("delete", tasks[k].id, NoBody, tasks))
    /\ UNCHANGED <<serverVars, apiVars, tasks, loading, error, showForm, editingTask,
                   mounted, done>>
    /\ sent' = sent + 1

\* handleDeleteTask: confirm() answered no, the handler returns
DeclineDelete ==
    /\ Rendered /\ Len(tasks) > 0
    /\ UNCHANGED vars

\* handleStatusChange up to its await: updateTask(id, { status })
ChangeStatus ==
    /\ Rendered /\ CanSend
    /\ \E k \in 1..Len(tasks), st \in ShortcutStatus :
         inflight' = Append(inflight,
            Request("status", tasks[k].id,
                    [title |-> Undefined, description |-> Undefined, status |-> st],
                    tasks))
    /\ UNCHANGED <<serverVars, apiVars, tasks, loading, error, showForm, editingTask,
                   mounted, done>>
    /\ sent' = sent + 1

\* the response the server gives to a request of the page
ServerReplies(r) ==
    CASE r.kind = "load" -> ListTasks(db)
      [] r.kind = "create" -> {CreateTask(db, nextId, clock, r.body)}
      [] r.kind = "delete" -> {DeleteTask(db, r.id)}
      [] OTHER -> {UpdateTask(db, r.id, r.body)}

\* axios: a 2xx answer resolves the promise with response.data, any other rejects
Settle(r, reply) ==
    IF reply.status \in {200, 201}
    THEN [r EXCEPT !.phase = "ok", !.data = reply.data]
    ELSE [r EXCEPT !.phase = "failed"]

\* the server handles a request of the page and its answer reaches the page
Serve ==
    \E k \in 1..Len(inflight) :
        /\ inflight[k].phase = "sent"
        /\ \E reply \in ServerReplies(inflight[k]) :
             /\ inflight' = [inflight EXCEPT ![k] = Settle(inflight[k], reply)]
             /\ db' = reply.db
             /\ nextId' = IF inflight[k].kind = "create" THEN reply.nextId ELSE nextId
        /\ UNCHANGED <<clock, apiVars, tasks, loading, error, showForm, editingTask,
                       mounted, done, sent>>

\* the request gets no answer (network error): the promise rejects
NoAnswer ==
    \E k \in 1..Len(inflight) :
        /\ inflight[k].phase = "sent"
        /\ inflight' = [inflight EXCEPT ![k].phase = "failed"]
        /\ UNCHANGED <<serverVars, apiVars, tasks, loading, error, showForm,
                       editingTask, mounted, done, sent>>

Settled(k, kind) == inflight[k].kind = kind /\ inflight[k].phase # "sent"

\* loadTasks after its await: setTasks(data) | setError, finally setLoading(false)
LoadTasksDone_NoFinally(k) ==
    /\ Settled(k, "load")
    /\ IF inflight[k].phase = "ok"
       THEN tasks' = inflight[k].data /\ loading' = FALSE /\ UNCHANGED error
       ELSE error' = LoadError /\ UNCHANGED <<tasks, loading>>
    /\ inflight' = RemoveAt(inflight, k)
    /\ UNCHANGED <<serverVars, apiVars, showForm, editingTask, mounted, done, sent>>
LoadTasksDone(k) ==
    /\ Settled(k, "load")
    /\ IF inflight[k].phase = "ok"
       THEN tasks' = inflight[k].data /\ UNCHANGED error
       ELSE error' = LoadError /\ UNCHANGED tasks
    /\ loading' = FALSE
    /\ inflight' = RemoveAt(inflight, k)
    /\ UNCHANGED <<serverVars, apiVars, showForm, editingTask, mounted, done, sent>>

\* handleCreateTask after its await
CreateTaskDone(k) ==
    /\ Settled(k, "create")
    /\ IF inflight[k].phase = "ok"
       THEN /\ tasks' = <<inflight[k].data[1]>> \o inflight[k].tasks
            /\ showForm' = FALSE
            /\ done' = [done EXCEPT !.created = @ \cup {inflight[k].data[1].id}]
            /\ UNCHANGED error
       ELSE error' = CreateError /\ UNCHANGED <<tasks, showForm, done>>
    /\ inflight' = RemoveAt(inflight, k)
    /\ UNCHANGED <<serverVars, apiVars, loading, editingTask, mounted, sent>>

\* handleEditTask after its await
EditTaskDone(k) ==
    /\ Settled(k, "edit")
    /\ IF inflight[k].phase = "ok"
       THEN /\ tasks' = MapReplace(inflight[k].tasks, inflight[k].id, inflight[k].data[1])
            /\ editingTask' = <<>>
            /\ showForm' = FALSE
            /\ UNCHANGED error
       ELSE error' = UpdateError /\ UNCHANGED <<tasks, editingTask, showForm>>
    /\ inflight' = RemoveAt(inflight, k)
    /\ UNCHANGED <<serverVars, apiVars, loading, mounted, done, sent>>

\* handleDeleteTask after its await
DeleteTaskDone(k) ==
    /\ Settled(k, "delete")
    /\ IF inflight[k].phase = "ok"
       THEN /\ tasks' = FilterOut(inflight[k].tasks, inflight[k].id)
            /\ done' = [done EXCEPT !.deleted = @ \cup {inflight[k].id}]
            /\ UNCHANGED error
       ELSE error' = DeleteError /\ UNCHANGED <<tasks, done>>
    /\ inflight' = RemoveAt(inflight, k)
    /\ UNCHANGED <<serverVars, apiVars, loading, showForm, editingTask, mounted, sent>>

\* handleStatusChange after its await
StatusChangeDone(k) ==
    /\ Settled(k, "status")
    /\ IF inflight[k].phase = "ok"
       THEN /\ tasks' = MapReplace(inflight[k].tasks, inflight[k].id, inflight[k].data[1])
            /\ UNCHANGED error
       ELSE error' = StatusError /\ UNCHANGED tasks
    /\ inflight' = RemoveAt(inflight, k)
    /\ UNCHANGED <<serverVars, apiVars, loading, showForm, editingTask, mounted, done, sent>>

LoadTasksResume == \E k \in 1..Len(inflight) : LoadTasksDone(k)
CreateTaskResume == \E k \in 1..Len(inflight) : CreateTaskDone(k)
EditTaskResume == \E k \in 1..Len(inflight) : EditTaskDone(k)
DeleteTaskResume == \E k \in 1..Len(inflight) : DeleteTaskDone(k)
StatusChangeResume == \E k \in 1..Len(inflight) : StatusChangeDone(k)
Resume ==
    \/ LoadTasksResume \/ CreateTaskResume \/ EditTaskResume
    \/ DeleteTaskResume \/ StatusChangeResume

\* the table when the page is opened: tasks created earlier, in one clock reading
SeedTable(n) ==
    [i \in 1..n |-> [title |-> "a", description |-> Null, status |-> "pending",
                     created_at |-> 0]]

ClientInit ==
    /\ \E n \in 0..MaxId : db = SeedTable(n) /\ nextId = n + 1
    /\ clock = 0
    /\ req = NoReq /\ resp = NoResp
    /\ tasks = <<>> /\ loading = TRUE /\ error = Null
    /\ showForm = FALSE /\ editingTask = <<>>
    /\ mounted = FALSE /\ inflight = <<>> /\ done = [created |-> {}, deleted |-> {}]
    /\ sent = 0

ClientNext ==
    \/ Mount \/ ToggleForm \/ OpenEditForm \/ CloseForm
    \/ SubmitCreate \/ SubmitEdit \/ ClickDelete \/ DeclineDelete \/ ChangeStatus
    \/ Serve \/ NoAnswer \/ Resume

ClientSpec == ClientInit /\ [][ClientNext]_vars

\* the effect runs after the first render, a request sent is answered or
\* fails, and a settled promise's continuation runs
LiveClient ==
    /\ ClientSpec
    /\ WF_vars(Mount)
    /\ WF_vars(Serve \/ NoAnswer)
    /\ WF_vars(Resume)

(***************************************************************************)
(* Claims about the task resource handler, checked under Spec.             *)
(***************************************************************************)
\* the step answers a request of kind op
Answers(op) == Idle /\ req'.op = op

\* C1: a Create whose title is absent or empty is answered 400 and leaves the
\* persisted tasks exactly as they were.
C1_CreateWithoutTitleRejected ==
    [][(Answers("create") /\ Falsy(req'.body.title))
        => (resp'.status = 400 /\ db' = db)]_vars

C1_Witness ==
    /\ req.op = "create" /\ req.body.title = "" /\ req.body.description = "d"
    /\ resp.status = 400 /\ DOMAIN db # {}

\* C2: every persisted task has a non-empty title and a status among pending,
\* in-progress, completed.
C2_PersistedTasksValid ==
    \A i \in DOMAIN db : db[i].title \notin {"", Null} /\ db[i].status \in StatusEnum

\* C3: a Create with a non-empty title is answered 201 with a positive id that
\* no persisted task had, the submitted title, and the submitted status or
\* "pending" when none was submitted; a Get of that id right afterwards returns
\* the same title, description and status.
C3_CreateReturnsNewTask ==
    [][(Answers("create") /\ ~Falsy(req'.body.title))
        => /\ resp'.status = 201
           /\ Len(resp'.data) = 1
           /\ LET t == resp'.data[1]
                  g == GetTask(db', t.id)
              IN  /\ t.id > 0 /\ t.id \notin DOMAIN db
                  /\ t.title = req'.body.title
                  /\ t.status = (IF req'.body.status = Undefined THEN "pending"
                                 ELSE req'.body.status)
                  /\ g.status = 200
                  /\ g.data[1].title = t.title
                  /\ g.data[1].description = t.description
                  /\ g.data[1].status = t.status]_vars

C3_Witness ==
    /\ req.op = "create" /\ resp.status = 201 /\ req.body.status = Undefined
    /\ resp.data[1].id = 2 /\ 1 \in DOMAIN db

\* C4: Get, Update and Delete of an id that matches no persisted task are
\* answered 404 and change nothing; a Delete of a persisted id is answered 200,
\* after it a Get and a second Delete of that id are answered 404, and only a
\* Create makes an id persisted, a new one.
C4_NotFound ==
    [][/\ \A op \in {"get", "update", "delete"} :
            (Answers(op) /\ req'.id \notin DOMAIN db)
                => (resp'.status = 404 /\ db' = db)
       /\ (Answers("delete") /\ req'.id \in DOMAIN db)
            => /\ resp'.status = 200
               /\ GetTask(db', req'.id).status = 404
               /\ DeleteTask(db', req'.id).status = 404
               /\ DeleteTask(db', req'.id).db = db'
       /\ \A i \in DOMAIN db' \ DOMAIN db : Answers("create") /\ i = nextId]_vars

C4_Witness ==
    /\ req.op = "delete" /\ resp.status = 404
    /\ req.id < nextId /\ req.id \notin DOMAIN db /\ DOMAIN db # {}

\* C5: List returns all persisted tasks, the later created before the earlier
\* created (ids are handed out in creation order).
C5_ListNewestFirst ==
    req.op = "list"
        => /\ {resp.data[i].id : i \in 1..Len(resp.data)} = DOMAIN db
           /\ \A i, j \in 1..Len(resp.data) :
                i < j => resp.data[i].id > resp.data[j].id

\* C6: an Update of a persisted id writes title, description and status from
\* the body, a field the body lacks as NULL; id and created_at stay, the other
\* rows stay, and the response is the row read back after the write.
C6_UpdateReplacesAll ==
    [][(Answers("update") /\ req'.id \in DOMAIN db)
        => LET i == req'.id
               b == req'.body
           IN  /\ resp'.status = 200
               /\ DOMAIN db' = DOMAIN db
               /\ db'[i].title = (IF b.title = Undefined THEN Null ELSE b.title)
               /\ db'[i].description =
                    (IF b.description = Undefined THEN Null ELSE b.description)
               /\ db'[i].status = (IF b.status = Undefined THEN Null ELSE b.status)
               /\ db'[i].created_at = db[i].created_at
               /\ \A j \in DOMAIN db \ {i} : db'[j] = db[j]
               /\ resp'.data = <<Task(db', i)>>
               /\ resp'.data[1].id = i]_vars

C6_Witness ==
    /\ req.op = "update" /\ resp.status = 200
    /\ req.body = [title |-> Undefined, description |-> Undefined, status |-> "completed"]
    /\ db[req.id].title = Null /\ db[req.id].description = Null
    /\ db[req.id].status = "completed"
    /\ db[req.id].created_at < clock

(***************************************************************************)
(* Claims about the page, checked under ClientSpec / LiveClient.           *)
(***************************************************************************)
\* the step is the continuation of request k of inflight
Resumes(k) == inflight[k].phase # "sent" /\ inflight' = RemoveAt(inflight, k)

ErrorOf(kind) ==
    CASE kind = "load" -> LoadError
      [] kind = "create" -> CreateError
      [] kind = "edit" -> UpdateError
      [] kind = "delete" -> DeleteError
      [] OTHER -> StatusError

\* C7: canceling the form clears formVisible and editingTarget, so that in
\* every state an editingTarget implies a visible form (and 'Add New Task'
\* never opens the form on a task edited before).
C7_EditTargetOnlyWhileFormVisible == editingTask # <<>> => showForm

\* C8: the page starts with loading = true and on mount issues one List;
\* whether it succeeds or fails loading eventually becomes false and stays
\* false; on success tasks is the list the server returned and error is not
\* set, on failure error is the load message and tasks stays empty.
C8_MountLoads ==
    /\ (~mounted /\ loading = TRUE /\ inflight = <<>>)
    /\ [][(~mounted /\ mounted')
            => (loading' /\ inflight' = <<Request("load", 0, NoBody, <<>>)>>)]_vars
    /\ [](Cardinality({k \in 1..Len(inflight) : inflight[k].kind = "load"}) <= 1)
    /\ [](mounted => ~ENABLED Mount)
    /\ <>[](~loading)
    /\ [][~loading => ~loading']_vars
    /\ [][\A k \in 1..Len(inflight) :
            /\ (inflight[k].kind = "load" /\ inflight[k].phase = "sent"
                    /\ Len(inflight') = Len(inflight) /\ inflight'[k].phase = "ok")
                => inflight'[k].data \in SelectAll(db)
            /\ (inflight[k].kind = "load" /\ Resumes(k))
                => /\ ~loading'
                   /\ IF inflight[k].phase = "ok"
                      THEN tasks' = inflight[k].data /\ error' = Null
                      ELSE error' = LoadError /\ tasks' = <<>>]_vars

C8_Witness ==
    /\ mounted /\ ~loading /\ inflight = <<>> /\ sent = 0
    /\ error = Null /\ Len(tasks) = 2 /\ tasks[1].id = 1

\* C9: a failed create, edit, delete or status change sets error to the
\* action's message and leaves tasks, formVisible and editingTarget as they
\* were; a successful create puts the returned task first in tasks, the other
\* elements as they were, and closes the form.
C9_MutationOutcomes ==
    [][\A k \in 1..Len(inflight) :
        (Resumes(k) /\ inflight[k].kind # "load")
            => IF inflight[k].phase = "failed"
               THEN /\ error' = ErrorOf(inflight[k].kind)
                    /\ tasks' = tasks /\ showForm' = showForm
                    /\ editingTask' = editingTask
               ELSE inflight[k].kind = "create"
                        => /\ tasks' = <<inflight[k].data[1]>> \o tasks
                           /\ ~showForm']_vars

\* C10: once no request is in flight, no task whose Delete succeeded is in
\* tasks, every task a successful Create returned is in tasks exactly once
\* unless it was deleted, and every task shown that is persisted shows its
\* persisted fields (the result of its last successful Update).
C10_QuiescentTasksReflectActions ==
    (mounted /\ inflight = <<>>)
        => /\ \A i \in done.deleted : i \notin TaskIds(tasks)
           /\ \A i \in done.created \ done.deleted :
                Cardinality({k \in 1..Len(tasks) : tasks[k].id = i}) = 1
           /\ \A k \in 1..Len(tasks) :
                tasks[k].id \in DOMAIN db => tasks[k] = Task(db, tasks[k].id)

====
